---- MODULE Spec2Model ----
(***************************************************************************)
(* The discardedmod analyzer (pkg/discardedmuts/analyzer.go): one pass     *)
(* over the typed syntax trees of a package.  run walks every file with    *)
(* ast.Inspect; at each *ast.FuncDecl it builds the table paramNames and   *)
(* walks the body with a second ast.Inspect whose callback holds the       *)
(* three detectors (Case 1, Case 2, Case 3).  Diagnostics go to the        *)
(* pass's sink through pass.Reportf.                                       *)
(*                                                                         *)
(* The syntax tree, the type information (go/types) and the renderers      *)
(* types.ExprString and types.TypeString are modelled by what the Go       *)
(* libraries do on the node and type shapes that occur here.               *)
(***************************************************************************)
EXTENDS Naturals, Sequences, FiniteSets, TLC

\* files       pass.Files (line 19), the input, never changed
\* run         which invocation of run this is: the first or the second
\* pc          "file": in the callback of ast.Inspect(file, ...) (line 21);
\*             "body": in the one of ast.Inspect(fn.Body, ...) (line 41);
\*             "done": both invocations have returned
\* outer       the nodes the walk of the files has still to visit
\* inner       the nodes the walk of the current body has still to visit
\* paramNames  the table of line 32, of the declaration last visited
\* diags       the diagnostics reported to the pass (pass.Reportf), in order
\* prev        the diagnostics of the first invocation
VARIABLES files, run, pc, outer, inner, paramNames, diags, prev

vars == <<files, run, pc, outer, inner, paramNames, diags, prev>>

(***************************************************************************)
(* Bounds of the inputs.                                                   *)
(***************************************************************************)
\* function declarations per package
MaxDecls == 2
\* selectors in an assignment target: p.f, p.f.f, ...
MaxDepth == 2
\* range loops nested in one another
MaxNest == 2

(***************************************************************************)
(* Sequences.                                                              *)
(***************************************************************************)
RECURSIVE Concat(_)
Concat(ss) == IF ss = <<>> THEN <<>> ELSE Head(ss) \o Concat(Tail(ss))

RECURSIVE Join(_)
Join(strs) == IF strs = <<>> THEN "" ELSE Head(strs) \o Join(Tail(strs))

HasPrefix(s, p) == Len(s) >= Len(p) /\ SubSeq(s, 1, Len(p)) = p

HasSuffix(s, p) == Len(s) >= Len(p) /\ SubSeq(s, Len(s) - Len(p) + 1, Len(s)) = p

(***************************************************************************)
(* go/types.  A type is [rep, name, sub]: rep is the dynamic class of the  *)
(* types.Type value (what a Go type switch sees), sub its element type     *)
(* (Pointer, Slice, Array) or its underlying type (Named).                 *)
(***************************************************************************)
Ty(rep, name, sub) == [rep |-> rep, name |-> name, sub |-> sub]

\* the nil types.Type
NoType == Ty("None", "", <<>>)

Basic(name) == Ty("Basic", name, <<>>)
StructOf(fields) == Ty("Struct", fields, <<>>)
PointerTo(t) == Ty("Pointer", "", <<t>>)
SliceOf(t) == Ty("Slice", "", <<t>>)
ArrayOf(len, t) == Ty("Array", len, <<t>>)
Named(name, under) == Ty("Named", name, <<under>>)

\* (*types.Named).Underlying and the identity of the type literals
RECURSIVE Underlying(_)
Underlying(t) == IF t.rep = "Named" THEN Underlying(t.sub[1]) ELSE t

\* types.TypeString(t, nil): named types are written package-qualified
RECURSIVE TypeString(_)
TypeString(t) ==
  CASE t.rep = "Basic" -> t.name
    [] t.rep = "Named" -> t.name
    [] t.rep = "Struct" -> "struct{" \o t.name \o "}"
    [] t.rep = "Pointer" -> "*" \o TypeString(t.sub[1])
    [] t.rep = "Slice" -> "[]" \o TypeString(t.sub[1])
    [] t.rep = "Array" -> "[" \o t.name \o "]" \o TypeString(t.sub[1])
    [] OTHER -> "invalid type"

\* the helpers at the end of analyzer.go
isPointer(typ) == typ.rep = "Pointer"

isSliceOrArray(typ) == typ.rep \in {"Slice", "Array"}

getElementType(typ) == IF typ.rep \in {"Slice", "Array"} THEN typ.sub[1] ELSE NoType

(***************************************************************************)
(* go/ast.  A node is [k, name, pos, typ, n, kids]: k the node type, name  *)
(* an identifier's name (or an operator), pos its token.Pos, typ what      *)
(* pass.TypesInfo records for it (kept for the nodes run asks about:        *)
(* identifiers and range operands), kids its children in ast.Walk's order. *)
(*   SelectorExpr  kids = <<X, Sel>>        IndexExpr  kids = <<X, Index>> *)
(*   StarExpr, UnaryExpr, ParenExpr, ExprStmt  kids = <<X>>                *)
(*   CallExpr      kids = <<Fun>> \o Args                                  *)
(*   AssignStmt    kids = Lhs \o Rhs, n = Len(Lhs)                         *)
(*   RangeStmt     kids = <<Key, Value, X, Body>> (Key, Value may be Nil)  *)
(*   FuncLit       kids = <<FieldList, Body>>                              *)
(*   FuncDecl      kids = <<Name, FieldList, Body>>                        *)
(*   FieldList     kids = the Fields, Field kids = its Names              *)
(***************************************************************************)
Node(k, name, pos, typ, n, kids) ==
  [k |-> k, name |-> name, pos |-> pos, typ |-> typ, n |-> n, kids |-> kids]

Nil == Node("Nil", "", 0, NoType, 0, <<>>)
Ident(name, pos, typ) == Node("Ident", name, pos, typ, 0, <<>>)
BasicLit(value, pos) == Node("BasicLit", value, pos, NoType, 0, <<>>)
SelectorExpr(x, sel, pos, typ) ==
  Node("SelectorExpr", "", pos, typ, 0, <<x, Ident(sel, pos + 1, typ)>>)
IndexExpr(x, index, pos, typ) == Node("IndexExpr", "", pos, typ, 0, <<x, index>>)
StarExpr(x, pos) == Node("StarExpr", "", pos, NoType, 0, <<x>>)
UnaryExpr(op, x, pos) == Node("UnaryExpr", op, pos, NoType, 0, <<x>>)
CallExpr(fun, args, pos) == Node("CallExpr", "", pos, NoType, 0, <<fun>> \o args)
AssignStmt(lhs, rhs, pos) == Node("AssignStmt", "=", pos, NoType, Len(lhs), lhs \o rhs)
ExprStmt(x, pos) == Node("ExprStmt", "", pos, NoType, 0, <<x>>)
BlockStmt(list, pos) == Node("BlockStmt", "", pos, NoType, 0, list)
RangeStmt(key, value, x, body, pos) ==
  Node("RangeStmt", "", pos, NoType, 0, <<key, value, x, body>>)
Field(names, pos) == Node("Field", "", pos, NoType, 0, names)
FieldList(fields, pos) == Node("FieldList", "", pos, NoType, 0, fields)
FuncLit(params, body, pos) == Node("FuncLit", "", pos, NoType, 0, <<params, body>>)
FuncDecl(name, params, body, pos) ==
  Node("FuncDecl", name, pos, NoType, 0, <<Ident(name, pos, NoType), params, body>>)
File(decls) == Node("File", "a", 0, NoType, 0, decls)

\* ast.Walk descends into the children that are present
Children(n) == SelectSeq(n.kids, LAMBDA c : c.k # "Nil")

\* the nodes ast.Inspect hands to a callback that always returns true
RECURSIVE Preorder(_)
Preorder(n) ==
  LET ch == Children(n)
  IN  <<n>> \o Concat([i \in 1..Len(ch) |-> Preorder(ch[i])])

\* pass.TypesInfo.TypeOf
TypeOf(e) == e.typ

\* types.ExprString
RECURSIVE ExprString(_)
ExprString(e) ==
  CASE e.k = "Ident" -> e.name
    [] e.k = "BasicLit" -> e.name
    [] e.k = "SelectorExpr" -> ExprString(e.kids[1]) \o "." \o e.kids[2].name
    [] e.k = "IndexExpr" -> ExprString(e.kids[1]) \o "[" \o ExprString(e.kids[2]) \o "]"
    [] e.k = "StarExpr" -> "*" \o ExprString(e.kids[1])
    [] e.k = "UnaryExpr" -> e.name \o ExprString(e.kids[1])
    [] e.k = "CallExpr" ->
         ExprString(e.kids[1]) \o "("
           \o Join([i \in 1..(Len(e.kids) - 1) |->
                        (IF i > 1 THEN ", " ELSE "") \o ExprString(e.kids[i + 1])])
           \o ")"
    [] OTHER -> "(bad expr)"

(***************************************************************************)
(* run.                                                                    *)
(***************************************************************************)
\* pass.Reportf
Reportf(pos, msg) == <<[pos |-> pos, msg |-> msg]>>

\* lines 32-38: the table of one declaration, a later name replacing an
\* earlier one; old is the table of the declaration before, which the
\* fresh make(map) drops
paramIdents(fn) ==
  LET fields == fn.kids[2].kids
  IN  Concat([i \in 1..Len(fields) |-> fields[i].kids])

\* the table kept across declarations, as a map allocated outside the
\* callback would be
makeParamNames_kept(old, fn) ==
  LET ids == paramIdents(fn)
      last(nm) == CHOOSE i \in 1..Len(ids) :
                    /\ ids[i].name = nm
                    /\ \A j \in (i + 1)..Len(ids) : ids[j].name # nm
      new == {ids[i].name : i \in 1..Len(ids)}
  IN  [nm \in new \cup DOMAIN old |-> IF nm \in new THEN ids[last(nm)].typ ELSE old[nm]]

makeParamNames(old, fn) ==
  LET ids == paramIdents(fn)
      last(nm) == CHOOSE i \in 1..Len(ids) :
                    /\ ids[i].name = nm
                    /\ \A j \in (i + 1)..Len(ids) : ids[j].name # nm
  IN  [nm \in {ids[i].name : i \in 1..Len(ids)} |-> ids[last(nm)].typ]

\* lines 48-58: the identifier an assignment target is resolved to, <<>>
\* when there is none
\* the resolution without its SelectorExpr case
identOf_bare(lhs) == IF lhs.k = "Ident" THEN <<lhs>> ELSE <<>>

identOf(lhs) ==
  CASE lhs.k = "Ident" -> <<lhs>>
    [] lhs.k = "SelectorExpr" /\ lhs.kids[1].k = "Ident" -> <<lhs.kids[1]>>
    [] OTHER -> <<>>

byValueMsg(name) ==
  "modification to '" \o name
    \o "' is discarded because it is passed by value; pass by reference instead"

\* Case 1, lines 45-69
case1Lhs(lhs, params) ==
  LET ident == identOf(lhs)
  IN  IF ident # <<>> /\ ident[1].name \in DOMAIN params
         /\ ~isPointer(params[ident[1].name])
      THEN Reportf(ident[1].pos, byValueMsg(ident[1].name))
      ELSE <<>>

case1(n, params) ==
  IF n.k = "AssignStmt"
  THEN Concat([i \in 1..n.n |-> case1Lhs(n.kids[i], params)])
  ELSE <<>>

\* lines 83-91
lhsIdentOf(lhs) ==
  CASE lhs.k = "Ident" -> <<lhs>>
    [] lhs.k = "SelectorExpr" /\ lhs.kids[1].k = "Ident" -> <<lhs.kids[1]>>
    [] OTHER -> <<>>

sliceElementMsg(name, sliceExpr) ==
  "modification to slice element '" \o name
    \o "' is discarded; use index to modify directly, e.g., '&&"
    \o sliceExpr \o "[i] = ...'"

\* lines 93-98
case2Lhs(lhs, ident, x) ==
  LET lhsIdent == lhsIdentOf(lhs)
  IN  IF lhsIdent # <<>> /\ lhsIdent[1].name = ident.name
      THEN Reportf(lhsIdent[1].pos, sliceElementMsg(ident.name, ExprString(x)))
      ELSE <<>>

\* lines 80-102: the callback of the ast.Inspect over the loop body
case2Node(m, ident, x) ==
  IF m.k = "AssignStmt"
  THEN Concat([i \in 1..m.n |-> case2Lhs(m.kids[i], ident, x)])
  ELSE <<>>

\* Case 2, lines 74-105
case2(n) ==
  IF n.k = "RangeStmt" /\ n.kids[2].k = "Ident"
     /\ isSliceOrArray(TypeOf(n.kids[3])) /\ n.kids[2].name # "_"
  THEN LET body == Preorder(n.kids[4])
       IN  Concat([i \in 1..Len(body) |-> case2Node(body[i], n.kids[2], n.kids[3])])
  ELSE <<>>

\* lines 112-117
funNameOf(call) ==
  CASE call.kids[1].k = "Ident" -> call.kids[1].name
    [] call.kids[1].k = "SelectorExpr" -> call.kids[1].kids[2].name
    [] OTHER -> "(unknown)"

\* lines 123-136
argIdentOf(x) ==
  CASE x.k = "Ident" -> <<x>>
    [] x.k = "SelectorExpr" /\ x.kids[1].k = "Ident" -> <<x.kids[1]>>
    [] OTHER -> <<>>

sliceAddrMsg(name, funName) ==
  "passing address of slice element '" \o name \o "' to '" \o funName
    \o "' will modify a copy; if you want to modify the original, pass a pointer to the element, e.g., '&"
    \o name \o "[i]'"

structAddrMsg(name, funName) ==
  "passing address of struct field '" \o name \o "' to '" \o funName
    \o "' will modify a copy; if you want to modify the original, pass a pointer to the struct, e.g., '&"
    \o name \o "'"

otherAddrMsg(name, typeStr, funName) ==
  "passing address of '" \o name \o "' (type " \o typeStr \o ") to '" \o funName
    \o "' is passing a copy; if you want to modify the original, pass a pointer to it, e.g., '&"
    \o name \o "[i]'"

\* the switch taken on identType itself, not on its underlying type
addrMsg_declared(name, identType, funName) ==
  CASE identType.rep \in {"Slice", "Array"} -> sliceAddrMsg(name, funName)
    [] identType.rep = "Struct" -> structAddrMsg(name, funName)
    [] OTHER -> otherAddrMsg(name, TypeString(Underlying(identType)), funName)

\* lines 140-153: the message chosen for an identifier of type identType
addrMsg(name, identType, funName) ==
  LET underlyingType == Underlying(identType)
  IN  CASE underlyingType.rep \in {"Slice", "Array"} -> sliceAddrMsg(name, funName)
        [] underlyingType.rep = "Struct" -> structAddrMsg(name, funName)
        [] OTHER -> otherAddrMsg(name, TypeString(underlyingType), funName)

\* lines 120-156
case3Arg(arg, funName) ==
  IF arg.k = "UnaryExpr" /\ arg.name = "&"
  THEN LET ident == argIdentOf(arg.kids[1])
       IN  IF ident # <<>> /\ TypeOf(ident[1]) # NoType
           THEN Reportf(ident[1].pos, addrMsg(ident[1].name, TypeOf(ident[1]), funName))
           ELSE <<>>
  ELSE <<>>

\* Case 3, lines 110-157
case3(n) ==
  IF n.k = "CallExpr"
  THEN Concat([i \in 1..(Len(n.kids) - 1) |-> case3Arg(n.kids[i + 1], funNameOf(n))])
  ELSE <<>>

\* lines 41-160: the callback of the ast.Inspect over fn.Body, on node n
inspectBody(n, params) == case1(n, params) \o case2(n) \o case3(n)

(***************************************************************************)
(* The inputs: type-checked files of a package a, after the repository's  *)
(* test package.  run reads no field list of a record type, so the record *)
(* types nest as deep as the targets select.                              *)
(***************************************************************************)
IntT == Basic("int")
Collectable == Named("a.Collectable", StructOf("checked bool"))
TestStruct ==
  Named("a.TestStruct", StructOf("Name string; collectables []a.Collectable"))
\* type TestPtr *TestStruct
TestPtr == Named("a.TestPtr", PointerTo(TestStruct))
\* type List []Collectable
List == Named("a.List", SliceOf(Collectable))

ParamTypes ==
  { TestStruct, Underlying(Collectable), PointerTo(TestStruct), TestPtr, SliceOf(Collectable),
    ArrayOf("3", IntT), List, SliceOf(PointerTo(Collectable)), IntT }

isRecordLike(t) == Underlying(t).rep \in {"Struct", "Pointer"}
isSequence(t) == Underlying(t).rep \in {"Slice", "Array"}

\* accessor chains of an assignment target: "sel" is .field, "idx" is [i]
RECURSIVE ChainsOf(_)
ChainsOf(len) ==
  IF len = 0 THEN {<<>>}
  ELSE ChainsOf(len - 1)
         \cup {Append(c, a) : c \in {d \in ChainsOf(len - 1) : Len(d) = len - 1},
                              a \in {"sel", "idx"}}

ValidChain(t, c) ==
  /\ \A i \in 1..(Len(c) - 1) : ~(c[i] = "idx" /\ c[i + 1] = "idx")
  /\ \/ c = <<>>
     \/ isRecordLike(t) /\ c[1] = "sel"
     \/ isSequence(t) /\ c[1] = "idx"
          /\ (Underlying(t).sub[1].rep = "Basic" => Len(c) = 1)

fieldName(rest) ==
  IF rest = <<>> THEN "checked"
  ELSE IF Head(rest) = "idx" THEN "collectables" ELSE "inner"

RECURSIVE Access(_, _, _)
Access(e, chain, b) ==
  IF chain = <<>> THEN e
  ELSE IF Head(chain) = "sel"
       THEN Access(SelectorExpr(e, fieldName(Tail(chain)), b, NoType), Tail(chain), b + 2)
       ELSE Access(IndexExpr(e, Ident("i", b, IntT), b, NoType), Tail(chain), b + 2)

X(b) == BasicLit("x", b)

\* stmt as it is, in a block, in a function literal that is called, or in a
\* range loop over an unrelated slice
Wrappers == {"plain", "block", "funclit", "range"}

Wrap(w, stmt, b) ==
  CASE w = "plain" -> stmt
    [] w = "block" -> BlockStmt(<<stmt>>, b)
    [] w = "funclit" ->
         ExprStmt(CallExpr(FuncLit(FieldList(<<>>, b), BlockStmt(<<stmt>>, b), b), <<>>, b), b)
    [] w = "range" ->
         RangeStmt(Nil, Ident("e", b, IntT), Ident("nums", b + 1, SliceOf(IntT)),
                   BlockStmt(<<stmt>>, b), b)

\* func f(p t) { body } or, with no parameter, func f() { body } over a
\* package-level variable p
Decl(name, hasParam, t, body, b) ==
  FuncDecl(name,
           FieldList(IF hasParam THEN <<Field(<<Ident("p", b + 2, t)>>, b + 2)>> ELSE <<>>, b + 1),
           BlockStmt(body, b + 5), b)

\* the targets p, p.checked, p.inner.checked, p[i], p.collectables[i], ...
\* that type-check for a p of type t
Targets == {tc \in ParamTypes \X ChainsOf(MaxDepth) : ValidChain(tc[1], tc[2])}

\* p<chain> = x
AssignDecls(b) ==
  { Decl("assign", hp, tc[1],
         <<Wrap(w, AssignStmt(<<Access(Ident("p", b + 20, tc[1]), tc[2], b + 21)>>,
                              <<X(b + 30)>>, b + 20),
                b + 10)>>, b) :
      hp \in BOOLEAN, w \in Wrappers, tc \in Targets }
  \cup
  \* *p = x
  { Decl("assign", TRUE, t,
         <<AssignStmt(<<StarExpr(Ident("p", b + 20, t), b + 19)>>, <<X(b + 30)>>, b + 20)>>, b) :
      t \in {u \in ParamTypes : Underlying(u).rep = "Pointer"} }
  \cup
  \* p, p.checked = x, x
  { Decl("assign", TRUE, t,
         <<AssignStmt(<<Ident("p", b + 20, t), Access(Ident("p", b + 22, t), <<"sel">>, b + 23)>>,
                      <<X(b + 30), X(b + 31)>>, b + 20)>>, b) :
      t \in {u \in ParamTypes : isRecordLike(u)} }

\* the operand of a range loop over the parameter: p itself, or its field
RangeParamTypes == {t \in ParamTypes : isSequence(t) \/ Underlying(t).rep = "Struct"}
                     \cup {PointerTo(TestStruct)}

RangeOperand(t, b) ==
  IF isSequence(t) THEN Ident("p", b, t)
  ELSE SelectorExpr(Ident("p", b, t), "collectables", b + 1, SliceOf(Collectable))

ElemOf(t) == IF isSequence(t) THEN Underlying(t).sub[1] ELSE Collectable

\* for _, <name> := range <operand> { ... { stmt } }, one loop per level;
\* a level is <<name, same>>: the value variable ("" for none) and whether
\* the loop ranges over the parameter again or over the slice items
RECURSIVE NestLoops(_, _, _, _)
NestLoops(levels, t, stmt, b) ==
  IF levels = <<>> THEN stmt
  ELSE LET lv == Head(levels)
           x == IF lv[2] THEN RangeOperand(t, b + 1)
                ELSE Ident("items", b + 1, SliceOf(Collectable))
           value == IF lv[1] = "" THEN Nil
                    ELSE Ident(lv[1], b + 4, IF lv[2] THEN ElemOf(t) ELSE Collectable)
       IN  RangeStmt(Ident("_", b, NoType), value, x,
                     BlockStmt(<<NestLoops(Tail(levels), t, stmt, b + 10)>>, b + 5), b)

\* the statement in the innermost loop: <name> = x, <name>.checked = x,
\* SetChecked(&<name>, true)
LoopStmt(kind, name, t, b) ==
  CASE kind = "assign" -> AssignStmt(<<Ident(name, b, t)>>, <<X(b + 5)>>, b)
    [] kind = "field" ->
         AssignStmt(<<Access(Ident(name, b, t), <<"sel">>, b + 1)>>, <<X(b + 5)>>, b)
    [] kind = "addr" ->
         ExprStmt(CallExpr(Ident("SetChecked", b + 1, NoType),
                           <<UnaryExpr("&", Ident(name, b, t), b + 2), Ident("true", b + 3, Basic("bool"))>>,
                           b + 1), b)

LoopCases ==
  {tk \in RangeParamTypes \X {"assign", "field", "addr"} :
     tk[2] = "field" => isRecordLike(ElemOf(tk[1]))}

RECURSIVE NestLevels(_)
NestLevels(len) ==
  IF len = 0 THEN {<<>>}
  ELSE NestLevels(len - 1)
         \cup {Append(c, a) : c \in {d \in NestLevels(len - 1) : Len(d) = len - 1},
                              a \in {"c", "d"} \X BOOLEAN}

RangeDecls(b) ==
  { Decl("loop", TRUE, tk[1],
         <<NestLoops(<<<<v, TRUE>>>>, tk[1], LoopStmt(tk[2], "c", ElemOf(tk[1]), b + 50), b + 10)>>, b) :
      tk \in LoopCases, v \in {"c", "_", ""} }
  \cup
  { Decl("loops", TRUE, t,
         <<NestLoops(<<<<"c", TRUE>>>> \o lv, t, LoopStmt("field", nm, Collectable, b + 50), b + 10)>>, b) :
      t \in {SliceOf(Collectable), PointerTo(TestStruct)},
      lv \in NestLevels(MaxNest - 1) \ {<<>>}, nm \in {"c", "d"} }

\* modify(&p<chain>, x), pkg.Set(&p<chain>, x), fns[0](&p<chain>, x), modify(p<chain>, x)
Callee(kind, b) ==
  CASE kind = "ident" -> Ident("modify", b, NoType)
    [] kind = "selector" -> SelectorExpr(Ident("pkg", b, NoType), "Set", b + 1, NoType)
    [] kind = "index" -> IndexExpr(Ident("fns", b, NoType), BasicLit("0", b + 1), b, NoType)

CallDecls(b) ==
  { Decl("call", hp, tc[1],
         <<ExprStmt(CallExpr(Callee(f, b + 10),
                             <<IF amp THEN UnaryExpr("&", Access(Ident("p", b + 20, tc[1]), tc[2], b + 21), b + 19)
                               ELSE Access(Ident("p", b + 20, tc[1]), tc[2], b + 21),
                               X(b + 30)>>, b + 10), b + 10)>>, b) :
      hp \in BOOLEAN, f \in {"ident", "selector", "index"}, amp \in BOOLEAN, tc \in Targets }

\* g := func(<q> tq) { <q><chain> = x }, in a function with or without a
\* parameter p of type TestStruct
LitDecls(b) ==
  { Decl("lit", hp, TestStruct,
         <<AssignStmt(<<Ident("g", b + 10, NoType)>>,
                      <<FuncLit(FieldList(<<Field(<<Ident(q, b + 12, tq)>>, b + 12)>>, b + 11),
                                BlockStmt(<<AssignStmt(<<Access(Ident(q, b + 20, tq), c, b + 21)>>,
                                                       <<X(b + 30)>>, b + 20)>>, b + 15),
                                b + 11)>>, b + 10)>>, b) :
      hp \in BOOLEAN, q \in {"q", "p"}, tq \in {TestStruct, PointerTo(TestStruct)},
      c \in {<<>>, <<"sel">>} }

MainDecls(b) == AssignDecls(b) \cup RangeDecls(b) \cup CallDecls(b) \cup LitDecls(b)

\* the declarations that follow the first one of a file:
\* func keep(p TestStruct) {} and func set(p *TestStruct) { p.checked = x }
MoreDecls(b) ==
  { Decl("keep", TRUE, TestStruct, <<>>, b),
    Decl("set", TRUE, PointerTo(TestStruct),
         <<AssignStmt(<<Access(Ident("p", b + 20, PointerTo(TestStruct)), <<"sel">>, b + 21)>>,
                      <<X(b + 30)>>, b + 20)>>, b) }

RECURSIVE DeclSeqs(_)
DeclSeqs(len) ==
  IF len = 1 THEN {<<d>> : d \in MainDecls(100)}
  ELSE DeclSeqs(len - 1)
         \cup {Append(ds, d) : ds \in {s \in DeclSeqs(len - 1) : Len(s) = len - 1},
                               d \in MoreDecls(100 * len)}

\* pass.Files: the declarations in one file, or the first one in a file of
\* its own
Packages ==
  { <<File(ds)>> : ds \in DeclSeqs(MaxDecls) }
  \cup
  { <<File(<<Head(ds)>>), File(Tail(ds))>> : ds \in {s \in DeclSeqs(MaxDecls) : Len(s) > 1} }

(***************************************************************************)
(* The pass, run twice over the same package.                              *)
(***************************************************************************)
Init ==
  /\ files \in Packages
  /\ run = 1
  /\ pc = "file"
  /\ outer = files
  /\ inner = <<>>
  /\ paramNames = <<>>
  /\ diags = <<>>
  /\ prev = <<>>

\* lines 19-27: the callback of the ast.Inspect over each file in turn, on
\* a node that is no function declaration
VisitNode ==
  /\ pc = "file" /\ outer # <<>>
  /\ Head(outer).k # "FuncDecl"
  /\ outer' = Children(Head(outer)) \o Tail(outer)
  /\ UNCHANGED <<files, run, pc, inner, paramNames, diags, prev>>

\* lines 23-41: on a function declaration, up to the start of the walk of
\* its body
VisitFuncDecl ==
  /\ pc = "file" /\ outer # <<>>
  /\ Head(outer).k = "FuncDecl"
  /\ paramNames' = makeParamNames(paramNames, Head(outer))
  /\ inner' = <<Head(outer).kids[3]>>
  /\ outer' = Children(Head(outer)) \o Tail(outer)
  /\ pc' = "body"
  /\ UNCHANGED <<files, run, diags, prev>>

\* lines 41-160: the body callback on the next node of the body
InspectBody ==
  /\ pc = "body" /\ inner # <<>>
  /\ diags' = diags \o inspectBody(Head(inner), paramNames)
  /\ inner' = Children(Head(inner)) \o Tail(inner)
  /\ UNCHANGED <<files, run, pc, outer, paramNames, prev>>

\* line 162: the body is walked, the file callback returns true
BodyDone ==
  /\ pc = "body" /\ inner = <<>>
  /\ pc' = "file"
  /\ UNCHANGED <<files, run, outer, inner, paramNames, diags, prev>>

\* line 165: run returns; the driver runs the pass again, with a new sink
RunAgain ==
  /\ pc = "file" /\ outer = <<>> /\ run = 1
  /\ prev' = diags
  /\ diags' = <<>>
  /\ run' = 2
  /\ outer' = files
  /\ UNCHANGED <<files, pc, inner, paramNames>>

\* line 165: the second run returns
Finish ==
  /\ pc = "file" /\ outer = <<>> /\ run = 2
  /\ pc' = "done"
  /\ UNCHANGED <<files, run, outer, inner, paramNames, diags, prev>>

Next == VisitNode \/ VisitFuncDecl \/ InspectBody \/ BodyDone \/ RunAgain \/ Finish

Spec == Init /\ [][Next]_vars

\* a run has returned: diags holds all it reported
RunComplete == outer = <<>> /\ pc \in {"file", "done"}

(***************************************************************************)
(* The properties.                                                         *)
(***************************************************************************)
NodesOf(n) == LET s == Preorder(n) IN {s[i] : i \in 1..Len(s)}

\* the nodes and the function declarations of the package, the nodes of
\* a body
AllNodes == UNION {NodesOf(files[i]) : i \in 1..Len(files)}
FuncDecls == {d \in AllNodes : d.k = "FuncDecl"}
BodyOf(d) == NodesOf(d.kids[3])
ParamsOf(d) == LET ids == paramIdents(d) IN {ids[i] : i \in 1..Len(ids)}

\* the parameters of a function literal
LitParamsOf(m) ==
  LET fields == m.kids[1].kids
      ids == Concat([i \in 1..Len(fields) |-> fields[i].kids])
  IN  {ids[i] : i \in 1..Len(ids)}

\* the targets of the assignments below node n
TargetsIn(n) ==
  UNION {{a.kids[i] : i \in 1..a.n} : a \in {m \in NodesOf(n) : m.k = "AssignStmt"}}

\* lhs is the bare name or one field access name.field
IsNameOrField(lhs, name) ==
  \/ lhs.k = "Ident" /\ lhs.name = name
  \/ lhs.k = "SelectorExpr" /\ lhs.kids[1].k = "Ident" /\ lhs.kids[1].name = name

\* the identifier at the root of an access path of any depth, <<>> if none
RECURSIVE RootOf(_)
RootOf(e) ==
  CASE e.k = "Ident" -> <<e>>
    [] e.k \in {"SelectorExpr", "IndexExpr"} -> RootOf(e.kids[1])
    [] OTHER -> <<>>

DiagsAt(pos) == {i \in 1..Len(diags) : diags[i].pos = pos}

IsByValueDiag(d, name) ==
  d.msg = "modification to '" \o name
            \o "' is discarded because it is passed by value; pass by reference instead"

IsRangeDiag(d) == HasPrefix(d.msg, "modification to slice element '")

\* C1: in a function declaration with a by-value parameter p of record
\* type, every assignment target p or p.field anywhere in the body gets
\* exactly one diagnostic with the by-value message, at that p's position.
C1_ByValueRecordParamReportedOnce ==
  RunComplete =>
    \A d \in FuncDecls : \A p \in ParamsOf(d) :
      Underlying(p.typ).rep = "Struct" =>
        \A lhs \in TargetsIn(d.kids[3]) :
          IsNameOrField(lhs, p.name) =>
            Cardinality({i \in DiagsAt(RootOf(lhs)[1].pos) :
                           IsByValueDiag(diags[i], p.name)}) = 1

\* a run over a declaration whose by-value record parameter is assigned
\* through a field inside a function literal, with its diagnostic reported
C1_Witness ==
  /\ RunComplete
  /\ \E d \in FuncDecls : \E p \in ParamsOf(d) : \E m \in BodyOf(d) :
       /\ Underlying(p.typ).rep = "Struct"
       /\ m.k = "FuncLit" /\ m.kids[1].kids = <<>>
       /\ \E lhs \in TargetsIn(m) :
            /\ lhs.k = "SelectorExpr" /\ IsNameOrField(lhs, p.name)
            /\ \E i \in DiagsAt(lhs.kids[1].pos) : IsByValueDiag(diags[i], p.name)

\* C2: in a function declaration with a parameter p of a pointer type, no
\* assignment p.field = x or *p = x gets the by-value diagnostic.
C2_PointerParamNeverReported ==
  RunComplete =>
    \A d \in FuncDecls : \A p \in ParamsOf(d) :
      Underlying(p.typ).rep = "Pointer" =>
        \A lhs \in TargetsIn(d.kids[3]) :
          (\/ lhs.k = "SelectorExpr" /\ IsNameOrField(lhs, p.name)
           \/ lhs.k = "StarExpr" /\ IsNameOrField(lhs.kids[1], p.name))
            => \A i \in DiagsAt(lhs.kids[1].pos) : ~IsByValueDiag(diags[i], p.name)

\* the range loops below n that bind a named, non-blank value variable
\* over an operand of slice or array type
ValueLoops(n) ==
  {r \in NodesOf(n) : /\ r.k = "RangeStmt"
                      /\ r.kids[2].k = "Ident" /\ r.kids[2].name # "_"
                      /\ Underlying(TypeOf(r.kids[3])).rep \in {"Slice", "Array"}}

\* C3: for every such loop, nested or not, every assignment v = x or
\* v.field = x in its body gets exactly one range-copy diagnostic, which
\* names v and the rendered text of the operand.
C3_RangeCopyReportedOnce ==
  RunComplete =>
    \A d \in FuncDecls : \A r \in ValueLoops(d.kids[3]) :
      \A lhs \in TargetsIn(r.kids[4]) :
        IsNameOrField(lhs, r.kids[2].name) =>
          LET at == {i \in DiagsAt(RootOf(lhs)[1].pos) : IsRangeDiag(diags[i])}
          IN  /\ Cardinality(at) = 1
              /\ \A i \in at :
                   /\ HasPrefix(diags[i].msg,
                                "modification to slice element '" \o r.kids[2].name \o "'")
                   /\ HasSuffix(diags[i].msg, ExprString(r.kids[3]) \o "[i] = ...'")

\* the name a call f(...) or q.f(...) is made under, <<>> for other callees
CalleeName(call) ==
  CASE call.kids[1].k = "Ident" -> <<call.kids[1].name>>
    [] call.kids[1].k = "SelectorExpr" -> <<call.kids[1].kids[2].name>>
    [] OTHER -> <<>>

\* the identifiers v of the arguments &v and &v.field of a call
AddressArgs(call) ==
  {call.kids[i].kids[1] : i \in {j \in 2..Len(call.kids) :
       /\ call.kids[j].k = "UnaryExpr" /\ call.kids[j].name = "&"
       /\ call.kids[j].kids[1].k = "Ident"}}
  \cup
  {call.kids[i].kids[1].kids[1] : i \in {j \in 2..Len(call.kids) :
       /\ call.kids[j].k = "UnaryExpr" /\ call.kids[j].name = "&"
       /\ call.kids[j].kids[1].k = "SelectorExpr"
       /\ call.kids[j].kids[1].kids[1].k = "Ident"}}

\* what the address-of-copy diagnostic for v, passed to f, has to say
AddrDiagFits(msg, v, f) ==
  LET kind == Underlying(v.typ).rep
  IN  CASE kind \in {"Slice", "Array"} ->
             /\ HasPrefix(msg, "passing address of slice element '" \o v.name
                                 \o "' to '" \o f \o "' ")
             /\ HasSuffix(msg, "e.g., '&" \o v.name \o "[i]'")
        [] kind = "Struct" ->
             /\ HasPrefix(msg, "passing address of struct field '" \o v.name
                                 \o "' to '" \o f \o "' ")
             /\ HasSuffix(msg, "e.g., '&" \o v.name \o "'")
        [] OTHER ->
             HasPrefix(msg, "passing address of '" \o v.name \o "' (type "
                              \o TypeString(Underlying(v.typ)) \o ") to '" \o f \o "' ")

\* C4: every argument &v or &v.field of a call f(...) in a declaration's
\* body gets exactly one diagnostic at v, whose variant is the one of the
\* underlying type of v: slice element, struct field, or the generic one.
C4_AddressVariantByUnderlyingKind ==
  RunComplete =>
    \A d \in FuncDecls : \A call \in {c \in BodyOf(d) : c.k = "CallExpr"} :
      CalleeName(call) # <<>> =>
        \A v \in AddressArgs(call) :
          /\ Cardinality(DiagsAt(v.pos)) = 1
          /\ \A i \in DiagsAt(v.pos) : AddrDiagFits(diags[i].msg, v, CalleeName(call)[1])

\* a run over a loop on an array of scalars whose element's address is
\* passed on: one diagnostic, of the generic variant
C4_Witness ==
  /\ RunComplete
  /\ \E d \in FuncDecls : \E r \in ValueLoops(d.kids[3]) :
       /\ TypeOf(r.kids[3]).rep = "Array" /\ r.kids[2].typ.rep = "Basic"
       /\ \E call \in {c \in NodesOf(r.kids[4]) : c.k = "CallExpr"} :
            \E v \in AddressArgs(call) :
              /\ v.name = r.kids[2].name
              /\ Cardinality(DiagsAt(v.pos)) = 1
              /\ \A i \in DiagsAt(v.pos) :
                   HasPrefix(diags[i].msg, "passing address of '" \o v.name \o "' (type int) to '")

\* C5: function literals are visited like declarations, with their own
\* parameter table: an assignment to a by-value parameter of a literal,
\* in the literal's body, gets the by-value diagnostic.
C5_LiteralParamsReported ==
  RunComplete =>
    \A m \in {n \in AllNodes : n.k = "FuncLit"} :
      \A q \in LitParamsOf(m) :
        Underlying(q.typ).rep # "Pointer" =>
          \A lhs \in TargetsIn(m.kids[2]) :
            IsNameOrField(lhs, q.name) =>
              \E i \in DiagsAt(RootOf(lhs)[1].pos) : IsByValueDiag(diags[i], q.name)

\* C6: the address of the value variable of a range loop over a slice,
\* passed to a call in the loop, is reported with the slice-element variant.
C6_LoopElementIsSliceElement ==
  RunComplete =>
    \A d \in FuncDecls : \A r \in ValueLoops(d.kids[3]) :
      TypeOf(r.kids[3]).rep = "Slice" =>
        \A call \in {c \in NodesOf(r.kids[4]) : c.k = "CallExpr"} :
          \A v \in AddressArgs(call) :
            v.name = r.kids[2].name =>
              /\ DiagsAt(v.pos) # {}
              /\ \A i \in DiagsAt(v.pos) :
                   HasPrefix(diags[i].msg, "passing address of slice element '" \o v.name \o "'")

\* what a run over declaration d alone, from an empty table, reports
AloneDiags(d) ==
  LET body == Preorder(d.kids[3])
      params == makeParamNames(<<>>, d)
  IN  Concat([i \in 1..Len(body) |-> inspectBody(body[i], params)])

\* C7: the second run over the same input reports the same set of
\* diagnostics as the first, and what a run reports is what its
\* declarations give one by one, each analysed on its own.
C7_SecondRunReportsTheSame ==
  /\ pc = "done" =>
       {diags[i] : i \in 1..Len(diags)} = {prev[i] : i \in 1..Len(prev)}
  /\ RunComplete =>
       LET all == Concat([i \in 1..Len(files) |-> Preorder(files[i])])
           decls == SelectSeq(all, LAMBDA n : n.k = "FuncDecl")
       IN  diags = Concat([i \in 1..Len(decls) |-> AloneDiags(decls[i])])

\* both runs are over, over a file of several declarations, with diagnostics
C7_Witness ==
  /\ pc = "done"
  /\ Cardinality(FuncDecls) > 1
  /\ diags # <<>> /\ prev # <<>>

\* C8: an assignment target of any depth and access kind rooted at a
\* by-value parameter p (p, p.a, p.a.b, p[i], p.a[i].b) gets the by-value
\* diagnostic at p.
C8_RootResolvedAtAnyDepth ==
  RunComplete =>
    \A d \in FuncDecls : \A p \in ParamsOf(d) :
      Underlying(p.typ).rep # "Pointer" =>
        \A lhs \in TargetsIn(d.kids[3]) :
          (RootOf(lhs) # <<>> /\ RootOf(lhs)[1].name = p.name) =>
            \E i \in DiagsAt(RootOf(lhs)[1].pos) : IsByValueDiag(diags[i], p.name)

\* C9: a range loop over a sequence of pointers gets no range-copy
\* diagnostic for the assignments of its body.
C9_PointerElementsNotReported ==
  RunComplete =>
    \A d \in FuncDecls : \A r \in ValueLoops(d.kids[3]) :
      Underlying(getElementType(Underlying(TypeOf(r.kids[3])))).rep = "Pointer" =>
        \A lhs \in TargetsIn(r.kids[4]) :
          RootOf(lhs) # <<>> =>
            \A i \in DiagsAt(RootOf(lhs)[1].pos) : ~IsRangeDiag(diags[i])

\* C10: every range-copy diagnostic reads "modification to slice element
\* '<name>' is discarded; use index to modify directly, e.g.,
\* '<sequence-expr>[i] = ...'" for a loop of the file with that value
\* variable and that operand.
C10_RangeCopyMessage ==
  RunComplete =>
    \A i \in 1..Len(diags) :
      IsRangeDiag(diags[i]) =>
        \E j \in 1..Len(files) : \E r \in ValueLoops(files[j]) :
          diags[i].msg = "modification to slice element '" \o r.kids[2].name
                           \o "' is discarded; use index to modify directly, e.g., '"
                           \o ExprString(r.kids[3]) \o "[i] = ...'"

====
